---------------------------- MODULE Spec2Model ----------------------------
(***************************************************************************)
(* Model of the host-monitoring agent (tahamoeini/system-monitoring):      *)
(*   - the monitoring loop of src/main.rs (history buffer, EWMA smoothing,  *)
(*     spike detection, severity aggregation),                             *)
(*   - the alert call of src/client.rs and the two alert receivers of      *)
(*     src/server.rs and src/grpc/server.rs.                               *)
(*                                                                         *)
(* Numbers.  Outlier scores are f64 values in [0,1]; they are modelled as  *)
(* exact fixed-point integers in units of 1/Scale, so that the EWMA update *)
(* 0.3*raw + 0.7*smoothed is computed without rounding.  Samples are       *)
(* integer percentages.                                                    *)
(*                                                                         *)
(* Option<T> is modelled as a sequence: None is <<>>, Some(x) is <<x>>.    *)
(* Strings that are taken apart (subjects) are sequences of characters.    *)
(***************************************************************************)
EXTENDS Integers, Sequences, FiniteSets, TLC

VARIABLES
    data,             \* MetricHistory.data : VecDeque<[f64;4]>
    smoothed_scores,  \* MetricHistory.smoothed_scores : [f64;4], units 1/Scale
    previous_data,    \* MetricHistory.previous_data : Option<[f64;4]>
    pc,               \* position of the monitoring loop inside one cycle
    cycles,           \* number of samples collected so far
    trained,          \* outcome of Forest::from_slice in this cycle
    metrics_status,   \* Option<Metrics>: the verdict of this cycle, if any
    attempt,          \* state of this cycle's alert attempt
    sent_count,       \* alert requests issued in this cycle
    request,          \* Option<Event>: the request last handed to a receiver
    response,         \* Option<Acknowledge>: the receiver's answer to it
    service,          \* which receiver handled `request`
    pushed,           \* ghost: every sample handed to add, in push order
    raw_scores,       \* Option<[f64;4]>: latest_scores of this cycle's analysis
    spike_flags,      \* Option<[bool;4]>: the last result of detect_spike
    raw_seen,         \* ghost: Option of the least and greatest raw score
                      \* handed to update_smoothed_scores so far, per dimension
    scored_cycles,    \* ghost: number of update_smoothed_scores calls so far
    ack_in,           \* Option: the arguments of the last EventAck::new call
    ack,              \* Option<EventAck>: the value that call built
    ws_stream,        \* the Mutex around the socket: its holder and waiters
    reader_pc,        \* position of the reader task of WebSocketClient::new
    sender_task,      \* position of the sender task and the message it holds
    sender_chan,      \* the mpsc channel (tx, rx) of WebSocketClient::sender
    wire_out,         \* messages written to the socket, in order
    wire_in,          \* frames sent by the server and not yet read
    pending_replies,  \* HashMap<String, mpsc::Sender>: reply_sub -> call id
    calls,            \* the send_and_wait_for_reply call of each caller
    reply_rx,         \* the reply channel of each caller's call
    ws_ghost          \* ghost: calls made, messages answered, frames pushed

\* the locals of analyze_status kept for the properties
auxVars == <<raw_scores, spike_flags, raw_seen, scored_cycles>>

\* the EventAck constructor calls
ackVars == <<ack_in, ack>>

\* WebSocketClient, its two tasks, the socket and the callers
wsVars == <<ws_stream, reader_pc, sender_task, sender_chan, wire_out, wire_in,
           pending_replies, calls, reply_rx, ws_ghost>>

\* everything outside the WebSocketClient
agentVars == <<data, smoothed_scores, previous_data, pc, cycles, trained,
               metrics_status, attempt, sent_count, request, response,
               service, pushed, auxVars, ackVars>>

vars == <<data, smoothed_scores, previous_data, pc, cycles, trained,
          metrics_status, attempt, sent_count, request, response, service,
          pushed, auxVars, ackVars, wsVars>>

-----------------------------------------------------------------------------
(* Bounds of the model *)

\* Capacity of the history window.  The program uses 100 (src/main.rs:14);
\* the window is scaled down so that eviction is reached by enumeration.
MAX_HISTORY == 4

\* Warm-up length: the literal 20 of src/main.rs:82, scaled with the window.
MIN_SAMPLES == 2

\* Number of monitoring cycles explored.
MaxCycles == 7

\* Number of add calls explored by the history-only specification.
MaxPushes == 7

\* Longest subject string handed to a receiver.
MaxSubjectLen == 4

\* Number of send_and_wait_for_reply calls explored on one WebSocketClient.
MaxCalls == 2

\* Number of frames the server sends that answer no request.
MaxUnsolicited == 1

-----------------------------------------------------------------------------
(* Option *)

None == <<>>

Some(x) == <<x>>

IsSome(o) == o # <<>>

Unwrap(o) == o[1]


-----------------------------------------------------------------------------
(* Fixed-point numbers *)

\* One unit of score is 1/Scale.  A raw score has one decimal digit and every
\* EWMA update adds one, so MaxCycles digits hold every score exactly.
Scale == 10 ^ MaxCycles

\* SMOOTHING_ALPHA = 0.3, in tenths (src/main.rs:16)
SMOOTHING_ALPHA == 3

\* SPIKE_THRESHOLD = 20.0, in the samples' units (src/main.rs:17)
SPIKE_THRESHOLD == 20

Dims == 1..4

Abs(x) == IF x < 0 THEN -x ELSE x

\* Samples the collector can return: [cpu, ram, disk, latency]
Samples == { <<10, 10, 10, 10>>, <<30, 10, 10, 10>>, <<31, 10, 10, 95>> }

\* Raw outlier scores Forest::score can return, in units of 1/Scale
\* (0.5, 1.0 and mixtures of them)
Half == 5 * (Scale \div 10)

One == Scale

RawScores == { <<Half, Half, Half, Half>>, <<One, One, One, One>>,
               <<One, Half, Half, Half>> }

-----------------------------------------------------------------------------
(* MetricHistory *)

\* MetricHistory::new
MetricHistory_new ==
    [data |-> <<>>, smoothed_scores |-> <<0, 0, 0, 0>>, previous_data |-> None]

\* VecDeque::back().cloned()
Back(d) == IF d = <<>> THEN None ELSE Some(d[Len(d)])

\* VecDeque::pop_front
PopFront(d) == Tail(d)

\* add recording previous_data after the push instead of before it
add_PrevAfterPush(d, sample) ==
    LET kept == IF Len(d) = MAX_HISTORY THEN PopFront(d) ELSE d
    IN  [data |-> Append(kept, sample), previous_data |-> Some(sample)]

\* add without the eviction at capacity
add_NoEviction(d, sample) ==
    [data |-> Append(d, sample), previous_data |-> Back(d)]

\* MetricHistory::add, as a function of the history fields it touches
add(d, sample) ==
    LET kept == IF Len(d) = MAX_HISTORY THEN PopFront(d) ELSE d
    IN  [data |-> Append(kept, sample), previous_data |-> Back(kept)]

\* the EWMA with the two weights exchanged
update_smoothed_scores_Swapped(smoothed, latest_scores) ==
    [i \in Dims |->
        ((10 - SMOOTHING_ALPHA) * latest_scores[i]
            + SMOOTHING_ALPHA * smoothed[i]) \div 10]

\* the EWMA without the decay of the previous value
update_smoothed_scores_NoDecay(smoothed, latest_scores) ==
    [i \in Dims |->
        (SMOOTHING_ALPHA * latest_scores[i] + 10 * smoothed[i]) \div 10]

\* MetricHistory::update_smoothed_scores
update_smoothed_scores(smoothed, latest_scores) ==
    [i \in Dims |->
        (SMOOTHING_ALPHA * latest_scores[i]
            + (10 - SMOOTHING_ALPHA) * smoothed[i]) \div 10]

\* detect_spike flagging a difference of exactly SPIKE_THRESHOLD too
detect_spike_Inclusive(prev, current_data) ==
    IF IsSome(prev)
    THEN [i \in Dims |-> Abs(current_data[i] - Unwrap(prev)[i]) >= SPIKE_THRESHOLD]
    ELSE [i \in Dims |-> FALSE]

\* MetricHistory::detect_spike
detect_spike(prev, current_data) ==
    IF IsSome(prev)
    THEN [i \in Dims |-> Abs(current_data[i] - Unwrap(prev)[i]) > SPIKE_THRESHOLD]
    ELSE [i \in Dims |-> FALSE]

-----------------------------------------------------------------------------
(* analyze_status *)

\* thresholds = [0.7, 0.6, 0.65, 0.75], in hundredths
thresholds == <<70, 60, 65, 75>>

\* coefficients = [0.4, 0.35, 0.15, 0.1], in twentieths
coefficients == <<8, 7, 3, 2>>

\* determine_status with the Critical cut point included
determine_status_Inclusive(score, threshold) ==
    IF score >= (threshold + 20) * (Scale \div 100) THEN "Critical"
    ELSE IF score > threshold * (Scale \div 100) THEN "Warning"
    ELSE "Normal"

\* determine_status(score, threshold): score in 1/Scale, threshold in 1/100
determine_status(score, threshold) ==
    IF score > (threshold + 20) * (Scale \div 100) THEN "Critical"
    ELSE IF score > threshold * (Scale \div 100) THEN "Warning"
    ELSE "Normal"

\* overall_score, in units of 1/(20*Scale)
overall_score(smoothed) ==
    coefficients[1] * smoothed[1] + coefficients[2] * smoothed[2]
        + coefficients[3] * smoothed[3] + coefficients[4] * smoothed[4]

\* an overall status that is Critical above 0.7 already
overall_status_LowCritical(score) ==
    IF score > 14 * Scale THEN "Critical"
    ELSE IF score > 12 * Scale THEN "Warning"
    ELSE "Normal"

\* overall_status: > 0.8 Critical, > 0.6 Warning, else Normal
overall_status(score) ==
    IF score > 16 * Scale THEN "Critical"
    ELSE IF score > 12 * Scale THEN "Warning"
    ELSE "Normal"

Metric(v, st) == [value |-> v, status |-> st]

\* a fallback verdict whose overall status is not the neutral one
FallbackMetrics_Critical ==
    [cpu |-> Metric(0, "Normal"), ram |-> Metric(0, "Normal"),
     disk |-> Metric(0, "Normal"), network |-> Metric(0, "Normal"),
     overall_status |-> "Critical"]

\* the Metrics value returned when Forest::from_slice fails
FallbackMetrics ==
    [cpu |-> Metric(0, "Normal"), ram |-> Metric(0, "Normal"),
     disk |-> Metric(0, "Normal"), network |-> Metric(0, "Normal"),
     overall_status |-> "Normal"]

\* an aggregation whose overall status is raised by a spike
ScoredMetrics_SpikeOverall(smoothed, spikes, latest_data) ==
    LET st(i) == IF spikes[i] THEN "Warning"
                 ELSE determine_status(smoothed[i], thresholds[i])
        scored == overall_status(overall_score(smoothed))
    IN  [cpu |-> Metric(latest_data[1], st(1)),
         ram |-> Metric(latest_data[2], st(2)),
         disk |-> Metric(latest_data[3], st(3)),
         network |-> Metric(latest_data[4], st(4)),
         overall_status |->
             IF (\E i \in Dims : spikes[i]) /\ scored = "Normal"
             THEN "Warning" ELSE scored]

\* the Metrics value returned after scoring: per-dimension statuses with the
\* spike override, and the overall status from the weighted smoothed scores
ScoredMetrics(smoothed, spikes, latest_data) ==
    LET st(i) == IF spikes[i] THEN "Warning"
                 ELSE determine_status(smoothed[i], thresholds[i])
    IN  [cpu |-> Metric(latest_data[1], st(1)),
         ram |-> Metric(latest_data[2], st(2)),
         disk |-> Metric(latest_data[3], st(3)),
         network |-> Metric(latest_data[4], st(4)),
         overall_status |-> overall_status(overall_score(smoothed))]

-----------------------------------------------------------------------------
(* The alert wire contract: Event, Acknowledge, and the two receivers *)

\* ICUStatus::Failure = 0
ICUStatus_Failure == 0

\* ICUStatus::Success = 1
ICUStatus_Success == 1

\* Characters of the subjects handed to the receivers
Alphabet == {"a", "c", "k", "-", "x"}

\* All strings over Alphabet of length at most n
RECURSIVE StringsUpTo(_)
StringsUpTo(n) ==
    IF n = 0 THEN { <<>> }
    ELSE LET shorter == StringsUpTo(n - 1)
         IN  shorter \cup { Append(w, ch) : w \in shorter, ch \in Alphabet }

Subjects == StringsUpTo(MaxSubjectLen)

\* the literal "ack-"
AckPrefix == <<"a", "c", "k", "-">>

\* the literal "CriticalAlert"
CriticalAlert ==
    <<"C", "r", "i", "t", "i", "c", "a", "l", "A", "l", "e", "r", "t">>

\* str::starts_with
StartsWith(str, prefix) ==
    /\ Len(str) >= Len(prefix)
    /\ SubSeq(str, 1, Len(prefix)) = prefix

\* format!("ack-{}", subject)
FormatAck(subject) == AckPrefix \o subject

Event(subject, payload, reply) ==
    [subject |-> subject, payload |-> payload, reply |-> reply]

Acknowledge(subject, status, payload) ==
    [subject |-> subject, status |-> status, payload |-> payload]

\* ICUError { code, message }: only the message is used
ICUError(message) == [message |-> message]

EventAck(subject, payload, status) ==
    [subject |-> subject, payload |-> payload, status |-> status]

\* subject.split('-').collect()[0]: the characters before the first '-'
FirstSegment(str) ==
    LET dashes == { k \in 1..Len(str) : str[k] = "-" }
        first == IF dashes = {} THEN Len(str) + 1
                 ELSE CHOOSE k \in dashes : \A j \in dashes : k <= j
    IN  SubSeq(str, 1, first - 1)

\* EventAck::new prefixing every subject
EventAck_new_AlwaysPrefix(subject, payload, status, error) ==
    EventAck(FormatAck(subject),
             IF IsSome(error) THEN Unwrap(error).message ELSE payload,
             IF IsSome(error) THEN ICUStatus_Failure ELSE ICUStatus_Success)

\* EventAck::new (src/types.rs)
EventAck_new(subject, payload, status, error) ==
    IF StartsWith(subject, AckPrefix)
    THEN EventAck(subject, payload, status)
    ELSE EventAck(FormatAck(subject),
                  IF IsSome(error) THEN Unwrap(error).message ELSE payload,
                  IF IsSome(error) THEN ICUStatus_Failure
                  ELSE ICUStatus_Success)

\* EventAck::new (src/grpc/types.rs)
EventAck_new_grpc(subject, payload, status, error) ==
    IF FirstSegment(subject) = <<"a", "c", "k">>
    THEN EventAck(subject, payload, status)
    ELSE EventAck(FormatAck(subject),
                  IF IsSome(error) THEN Unwrap(error).message ELSE payload,
                  IF IsSome(error) THEN ICUStatus_Failure
                  ELSE ICUStatus_Success)

\* EventsService::alert answering reply = true with the subject unprefixed
EventsService_alert_NoPrefix(event) ==
    IF event.reply
    THEN Some(Acknowledge(event.subject, ICUStatus_Success,
                          "Acknowledged successfully."))
    ELSE Some(Acknowledge(event.subject, ICUStatus_Failure,
                          "Acknowledgement failed."))

\* EventsService::alert (src/server.rs): the answer to one request
EventsService_alert(event) ==
    IF event.reply
    THEN Some(Acknowledge(FormatAck(event.subject), ICUStatus_Success,
                          "Acknowledged successfully."))
    ELSE Some(Acknowledge(event.subject, ICUStatus_Failure,
                          "Acknowledgement failed."))

\* CommunicationService::alert (src/grpc/server.rs): the else branch is
\* commented out, so a request with reply = false gets no Acknowledge
CommunicationService_alert(event) ==
    IF event.reply
    THEN Some(Acknowledge(FormatAck(event.subject), ICUStatus_Success,
                          "Acknowledged successfully."))
    ELSE None

\* send_alert dropping the caller's reply flag (reply defaults to false)
send_alert_request_NoReply(subject, payload, reply) ==
    Event(subject, payload, FALSE)

\* the Event that send_alert puts on the wire (src/client.rs:20-24)
send_alert_request(subject, payload, reply) == Event(subject, payload, reply)

\* a training failure that also resets the smoothed scores
analyze_status_failed_Reset(smoothed) ==
    [smoothed_scores |-> MetricHistory_new.smoothed_scores,
     metrics |-> FallbackMetrics]

\* analyze_status when Forest::from_slice returns Err: the early return
analyze_status_failed(smoothed) ==
    [smoothed_scores |-> smoothed, metrics |-> FallbackMetrics]

\* analyze_status when the forest is trained: score the latest sample,
\* update the smoothed scores, detect spikes, aggregate
analyze_status_scored(smoothed, prev, d, latest_scores) ==
    LET latest_data == d[Len(d)]
        updated == update_smoothed_scores(smoothed, latest_scores)
        spikes == detect_spike(prev, latest_data)
    IN  [smoothed_scores |-> updated,
         spikes |-> spikes,
         metrics |-> ScoredMetrics(updated, spikes, latest_data)]

Min2(a, b) == IF a <= b THEN a ELSE b

Max2(a, b) == IF a >= b THEN a ELSE b

\* the range of the raw scores seen so far, after one more raw score vector
RawSeenAfter(seen, raw) ==
    IF seen = None
    THEN Some([min |-> raw, max |-> raw])
    ELSE Some([min |-> [i \in Dims |-> Min2(Unwrap(seen).min[i], raw[i])],
               max |-> [i \in Dims |-> Max2(Unwrap(seen).max[i], raw[i])]])

\* analysing as soon as the history is not empty
ShouldAnalyze_NonEmpty(d) == Len(d) >= 1

\* main: `if history.data.len() >= 20`
ShouldAnalyze(d) == Len(d) >= MIN_SAMPLES

\* the overall status of this cycle's verdict is Critical
IsCritical(m) == IsSome(m) /\ Unwrap(m).overall_status = "Critical"

-----------------------------------------------------------------------------
(* WebSocketClient (src/socket.rs): types, the socket lock, the handlers *)

\* mpsc::channel::<WSMessage>(32) of WebSocketClient::new
CHANNEL_CAPACITY == 32

\* the tasks and threads that use one client
Callers == {"c1", "c2"}

\* the reply subjects the callers choose from
ReplySubs == {"r1", "r2"}

\* WSMessage as a caller builds it.  payload and error are carried through
\* unread and are left out; id is a ghost field naming the call.
WSMessage(id, sub, reply_sub) ==
    [id |-> id, sub |-> sub, reply_sub |-> reply_sub]

\* A frame read from the socket: a Text frame holding a WSMessage with
\* subject sub, a frame the reader has no branch for (Ping, Binary, a text
\* that does not parse), a Close frame, or a stream error.  re is a ghost
\* field: the id of the request the frame answers, 0 for none.
TextFrame(sub, re) == [kind |-> "text", sub |-> sub, re |-> re]

OtherFrame == [kind |-> "other", sub |-> "", re |-> 0]

CloseFrame == [kind |-> "close", sub |-> "", re |-> 0]

ErrorFrame == [kind |-> "error", sub |-> "", re |-> 0]

\* tokio::sync::Mutex: one holder, waiters served first come first served
Unlocked == [holder |-> "none", waiters |-> <<>>]

\* lock().await: taken at once when free, queued otherwise
Lock(m, task) ==
    IF m.holder = "none"
    THEN [m EXCEPT !.holder = task]
    ELSE [m EXCEPT !.waiters = Append(@, task)]

\* dropping the guard hands the lock to the first waiter
Unlock(m) ==
    IF m.waiters = <<>>
    THEN [m EXCEPT !.holder = "none"]
    ELSE [holder |-> Head(m.waiters), waiters |-> Tail(m.waiters)]

\* a caller that is not inside send_and_wait_for_reply
IdleCall == [pc |-> "idle", id |-> 0, reply_sub |-> None, result |-> None]

\* the results of send_and_wait_for_reply
NoReplyExpected == "NoReplyExpected"

ChannelClosed == "Reply channel closed unexpectedly"

TimedOut == "Timeout waiting for reply"

\* the reply_tx of call id is still held by pending_replies
SenderHeld(pending, id) == \E rs \in ReplySubs : pending[rs] = Some(id)

\* the callers whose reply_rx belongs to call id and is not yet dropped
Receivers(cs, id) ==
    {c \in Callers : cs[c].id = id /\ cs[c].pc \in {"registered", "waiting"}}

\* number of entries of the map
PendingLen(pending) == Cardinality({rs \in ReplySubs : IsSome(pending[rs])})

\* the state after WebSocketClient::new: both tasks spawned, neither has run
WsInit ==
    /\ ws_stream = Unlocked
    /\ reader_pc = "start"
    /\ sender_task = [pc |-> "recv", msg |-> None]
    /\ sender_chan = <<>>
    /\ wire_out = <<>>
    /\ wire_in = <<>>
    /\ pending_replies = [rs \in ReplySubs |-> None]
    /\ calls = [c \in Callers |-> IdleCall]
    /\ reply_rx = [c \in Callers |-> None]
    /\ ws_ghost = [made |-> 0, answered |-> {}, unsolicited |-> 0]

-----------------------------------------------------------------------------
(* The monitoring loop *)

Init ==
    /\ data = MetricHistory_new.data
    /\ smoothed_scores = MetricHistory_new.smoothed_scores
    /\ previous_data = MetricHistory_new.previous_data
    /\ pc = "collect"
    /\ cycles = 0
    /\ trained = "none"
    /\ metrics_status = None
    /\ attempt = "Idle"
    /\ sent_count = 0
    /\ request = None
    /\ response = None
    /\ service = "Events"
    /\ pushed = <<>>
    /\ raw_scores = None
    /\ spike_flags = None
    /\ raw_seen = None
    /\ scored_cycles = 0
    /\ ack_in = None
    /\ ack = None
    /\ WsInit

\* collect_metrics() followed by history.add(...)
Collect(sample) ==
    /\ pc = "collect"
    /\ cycles < MaxCycles
    /\ data' = add(data, sample).data
    /\ previous_data' = add(data, sample).previous_data
    /\ cycles' = cycles + 1
    /\ pc' = "check"
    /\ UNCHANGED <<smoothed_scores, trained, metrics_status, attempt,
                   sent_count, request, response, service, pushed,
                   auxVars, ackVars, wsVars>>

\* the else branch of main: println!("Collecting data... ")
Warmup ==
    /\ pc = "check"
    /\ ~ShouldAnalyze(data)
    /\ pc' = "sleep"
    /\ UNCHANGED <<data, smoothed_scores, previous_data, cycles, trained,
                   metrics_status, attempt, sent_count, request, response,
                   service, pushed, auxVars, ackVars, wsVars>>

\* analyze_status with a trained forest that returns latest_scores
AnalyzeScored(latest_scores) ==
    /\ pc = "check"
    /\ ShouldAnalyze(data)
    /\ LET r == analyze_status_scored(smoothed_scores, previous_data, data,
                                      latest_scores)
       IN  /\ smoothed_scores' = r.smoothed_scores
           /\ spike_flags' = Some(r.spikes)
           /\ metrics_status' = Some(r.metrics)
    /\ raw_scores' = Some(latest_scores)
    /\ raw_seen' = RawSeenAfter(raw_seen, latest_scores)
    /\ scored_cycles' = scored_cycles + 1
    /\ trained' = "ok"
    /\ pc' = "dispatch"
    /\ UNCHANGED <<data, previous_data, cycles, attempt, sent_count, request,
                   response, service, pushed, ackVars, wsVars>>

\* analyze_status when Forest::from_slice fails
AnalyzeFailed ==
    /\ pc = "check"
    /\ ShouldAnalyze(data)
    /\ LET r == analyze_status_failed(smoothed_scores)
       IN  /\ smoothed_scores' = r.smoothed_scores
           /\ metrics_status' = Some(r.metrics)
    /\ trained' = "failed"
    /\ pc' = "dispatch"
    /\ UNCHANGED <<data, previous_data, cycles, attempt, sent_count, request,
                   response, service, pushed, auxVars, ackVars, wsVars>>

\* Alert dispatcher, Idle -> Sent: on a Critical verdict call
\* send_alert("CriticalAlert", summary of the latest sample, true)
Dispatch ==
    /\ pc = "dispatch"
    /\ IsCritical(metrics_status)
    /\ request' = Some(send_alert_request(CriticalAlert, data[Len(data)], TRUE))
    /\ attempt' = "Sent"
    /\ sent_count' = sent_count + 1
    /\ pc' = "await"
    /\ UNCHANGED <<data, smoothed_scores, previous_data, cycles, trained,
                   metrics_status, response, service, pushed, auxVars,
                   ackVars, wsVars>>

\* Alert dispatcher: a verdict that is not Critical sends nothing
NoDispatch ==
    /\ pc = "dispatch"
    /\ ~IsCritical(metrics_status)
    /\ pc' = "sleep"
    /\ UNCHANGED <<data, smoothed_scores, previous_data, cycles, trained,
                   metrics_status, attempt, sent_count, request, response,
                   service, pushed, auxVars, ackVars, wsVars>>

\* send_alert returns Ok(response): the receiver at [::1]:50051 answered
Acked ==
    /\ pc = "await"
    /\ attempt = "Sent"
    /\ IsSome(EventsService_alert(Unwrap(request)))
    /\ response' = EventsService_alert(Unwrap(request))
    /\ attempt' = "Acked"
    /\ pc' = "sleep"
    /\ UNCHANGED <<data, smoothed_scores, previous_data, cycles, trained,
                   metrics_status, sent_count, request, service, pushed,
                   auxVars, ackVars, wsVars>>

\* send_alert returns Err: connect() or client.alert() failed
TransportFailed ==
    /\ pc = "await"
    /\ attempt = "Sent"
    /\ attempt' = "TransportFailed"
    /\ pc' = "sleep"
    /\ UNCHANGED <<data, smoothed_scores, previous_data, cycles, trained,
                   metrics_status, sent_count, request, response, service,
                   pushed, auxVars, ackVars, wsVars>>

\* thread::sleep(MONITORING_INTERVAL); the cycle's locals are dropped
Sleep ==
    /\ pc = "sleep"
    /\ pc' = "collect"
    /\ trained' = "none"
    /\ metrics_status' = None
    /\ attempt' = "Idle"
    /\ sent_count' = 0
    /\ request' = None
    /\ response' = None
    /\ raw_scores' = None
    /\ spike_flags' = None
    /\ UNCHANGED <<data, smoothed_scores, previous_data, cycles, service,
                   pushed, raw_seen, scored_cycles, ackVars, wsVars>>

Next ==
    \/ \E sample \in Samples : Collect(sample)
    \/ Warmup
    \/ \E latest_scores \in RawScores : AnalyzeScored(latest_scores)
    \/ AnalyzeFailed
    \/ Dispatch
    \/ NoDispatch
    \/ Acked
    \/ TransportFailed
    \/ Sleep

Spec == Init /\ [][Next]_vars

\* The steps the monitoring thread takes by itself.  The receiver's answer
\* and a transport error are events of the environment.
LoopStep ==
    \/ \E sample \in Samples : Collect(sample)
    \/ Warmup
    \/ \E latest_scores \in RawScores : AnalyzeScored(latest_scores)
    \/ AnalyzeFailed
    \/ Dispatch
    \/ NoDispatch
    \/ Sleep

FairSpec == Init /\ [][Next]_vars /\ WF_vars(LoopStep)

-----------------------------------------------------------------------------
(* The history buffer alone: any sequence of add calls *)

\* history.add(sample), remembering every sample that was pushed
Push(sample) ==
    /\ Len(pushed) < MaxPushes
    /\ data' = add(data, sample).data
    /\ previous_data' = add(data, sample).previous_data
    /\ pushed' = Append(pushed, sample)
    /\ spike_flags' = None
    /\ UNCHANGED <<smoothed_scores, pc, cycles, trained, metrics_status,
                   attempt, sent_count, request, response, service,
                   raw_scores, raw_seen, scored_cycles, ackVars, wsVars>>

NextHist == \E sample \in Samples : Push(sample)

SpecHist == Init /\ [][NextHist]_vars

-----------------------------------------------------------------------------
(* The spike detector alone: detect_spike on the latest sample after any   *)
(* sequence of add calls, also before a second sample exists               *)

\* history.detect_spike(latest_data)
DetectSpike ==
    /\ data # <<>>
    /\ spike_flags = None
    /\ spike_flags' = Some(detect_spike(previous_data, data[Len(data)]))
    /\ UNCHANGED <<data, smoothed_scores, previous_data, pc, cycles, trained,
                   metrics_status, attempt, sent_count, request, response,
                   service, pushed, raw_scores, raw_seen, scored_cycles,
                   ackVars, wsVars>>

NextSpike ==
    \/ \E sample \in Samples : Push(sample)
    \/ DetectSpike

SpecSpike == Init /\ [][NextSpike]_vars

-----------------------------------------------------------------------------
(* The receivers alone: any one request handed to either alert handler.    *)
(* The handlers keep no state between requests, so one request per         *)
(* behaviour covers every call.                                            *)

\* subjects of the requests: every short string, and "CriticalAlert"
RequestSubjects == Subjects \cup {CriticalAlert}

\* payloads of the requests
RequestPayloads == { <<10, 10, 10, 10>> }

\* one call of EventsService::alert
EventsAlert(event) ==
    /\ request = None
    /\ request' = Some(event)
    /\ service' = "Events"
    /\ response' = EventsService_alert(event)
    /\ UNCHANGED <<data, smoothed_scores, previous_data, pc, cycles, trained,
                   metrics_status, attempt, sent_count, pushed, auxVars,
                   ackVars, wsVars>>

\* one call of CommunicationService::alert
CommunicationAlert(event) ==
    /\ request = None
    /\ request' = Some(event)
    /\ service' = "Communication"
    /\ response' = CommunicationService_alert(event)
    /\ UNCHANGED <<data, smoothed_scores, previous_data, pc, cycles, trained,
                   metrics_status, attempt, sent_count, pushed, auxVars,
                   ackVars, wsVars>>

NextRecv ==
    \E subject \in RequestSubjects, payload \in RequestPayloads,
       reply \in BOOLEAN :
        \/ EventsAlert(Event(subject, payload, reply))
        \/ CommunicationAlert(Event(subject, payload, reply))

SpecRecv == Init /\ [][NextRecv]_vars

-----------------------------------------------------------------------------
(* The aggregation alone: one analyze_status call in a long-running loop,  *)
(* from smoothed scores at and around every cut point.  The forest returns *)
(* raw scores equal to the smoothed ones, which the EWMA update leaves     *)
(* where they are.                                                         *)

\* a smoothed score of h hundredths
Hundredths(h) == h * (Scale \div 100)

\* per dimension: 0, the Warning cut point, the Critical cut point, and the
\* next representable score above each
CutScores(i) ==
    { 0, Hundredths(thresholds[i]), Hundredths(thresholds[i]) + 1,
      Hundredths(thresholds[i] + 20), Hundredths(thresholds[i] + 20) + 1 }

\* the same score in every dimension: the cut points 0.6 and 0.8 of the
\* overall score and the next score above each
UniformScores ==
    { <<x, x, x, x>> :
        x \in { Hundredths(60), Hundredths(60) + 1,
                Hundredths(80), Hundredths(80) + 1 } }

ScoreInputs ==
    { <<a, b, c, d>> : a \in CutScores(1), b \in CutScores(2),
                       c \in CutScores(3), d \in CutScores(4) }
        \cup UniformScores

\* the sample before the latest one
BaseSample == <<10, 10, 10, 10>>

\* latest samples: no change, a change of exactly SPIKE_THRESHOLD, and a
\* change of more than SPIKE_THRESHOLD in one or in all dimensions
LatestInputs ==
    { <<10, 10, 10, 10>>, <<30, 10, 10, 10>>, <<31, 10, 10, 10>>,
      <<10, 31, 10, 10>>, <<10, 10, 31, 10>>, <<10, 10, 10, 31>>,
      <<31, 31, 31, 31>> }

\* a full window whose last two samples are BaseSample and latest
InitAgg ==
    /\ smoothed_scores \in ScoreInputs
    /\ \E latest \in LatestInputs :
          data = [k \in 1..MAX_HISTORY |->
                     IF k = MAX_HISTORY THEN latest ELSE BaseSample]
    /\ previous_data = Some(BaseSample)
    /\ pc = "check"
    /\ cycles = MAX_HISTORY
    /\ trained = "none"
    /\ metrics_status = None
    /\ attempt = "Idle"
    /\ sent_count = 0
    /\ request = None
    /\ response = None
    /\ service = "Events"
    /\ pushed = <<>>
    /\ raw_scores = None
    /\ spike_flags = None
    /\ raw_seen = Some([min |-> <<0, 0, 0, 0>>, max |-> <<One, One, One, One>>])
    /\ scored_cycles = MaxCycles
    /\ ack_in = None
    /\ ack = None
    /\ WsInit

\* analyze_status with a forest that returns the current smoothed scores
AnalyzeAtCutPoint == AnalyzeScored(smoothed_scores)

NextAgg == AnalyzeAtCutPoint

SpecAgg == InitAgg /\ [][NextAgg]_vars

-----------------------------------------------------------------------------
(* The acknowledgement constructor alone: one EventAck::new call with any  *)
(* arguments, and a second call on the subject the first one built         *)

\* the arguments of EventAck::new that are not the subject
AckPayloads == {"payload"}

AckStatuses == {ICUStatus_Failure, ICUStatus_Success}

AckErrors == {None, Some(ICUError("error message"))}

\* the two EventAck::new of the repository
AckImpls == {"types", "grpc_types"}

\* the call, by the implementation it is made on
CallEventAckNew(a) ==
    IF a.impl = "types"
    THEN EventAck_new(a.subject, a.payload, a.status, a.error)
    ELSE EventAck_new_grpc(a.subject, a.payload, a.status, a.error)

\* EventAck::new(subject, payload, status, error)
NewAck(a) ==
    /\ ack = None
    /\ ack_in' = Some(a)
    /\ ack' = Some(CallEventAckNew(a))
    /\ UNCHANGED <<data, smoothed_scores, previous_data, pc, cycles, trained,
                   metrics_status, attempt, sent_count, request, response,
                   service, pushed, auxVars, wsVars>>

\* EventAck::new(ack.subject, payload, status, error) on a built ack
RebuildAck(payload, status, error) ==
    /\ IsSome(ack)
    /\ Unwrap(ack_in).round = 1
    /\ LET a == [impl |-> Unwrap(ack_in).impl, round |-> 2,
                 subject |-> Unwrap(ack).subject, payload |-> payload,
                 status |-> status, error |-> error]
       IN  /\ ack_in' = Some(a)
           /\ ack' = Some(CallEventAckNew(a))
    /\ UNCHANGED <<data, smoothed_scores, previous_data, pc, cycles, trained,
                   metrics_status, attempt, sent_count, request, response,
                   service, pushed, auxVars, wsVars>>

NextAck ==
    \/ \E impl \in AckImpls, subject \in Subjects, payload \in AckPayloads,
          status \in AckStatuses, error \in AckErrors :
            NewAck([impl |-> impl, round |-> 1, subject |-> subject,
                    payload |-> payload, status |-> status, error |-> error])
    \/ \E payload \in AckPayloads, status \in AckStatuses,
          error \in AckErrors :
            RebuildAck(payload, status, error)

SpecAck == Init /\ [][NextAck]_vars

-----------------------------------------------------------------------------
(* One WebSocketClient: the sender task, the reader task, the callers of    *)
(* send_and_wait_for_reply, and the server at the other end of the socket.  *)
(* A step of a task runs from one await that can suspend it to the next.    *)

\* send_and_wait_for_reply up to its first send: with a reply_sub, the reply
\* channel is created and its sender inserted under reply_sub, replacing
\* (and so dropping) a sender already stored under that key
Call(c, reply_sub) ==
    /\ calls[c].pc \in {"idle", "returned"}
    /\ ws_ghost.made < MaxCalls
    /\ LET id == ws_ghost.made + 1 IN
        /\ calls' = [calls EXCEPT ![c] = [pc |-> "registered", id |-> id,
                                          reply_sub |-> reply_sub,
                                          result |-> None]]
        /\ pending_replies' =
              IF IsSome(reply_sub)
              THEN [pending_replies EXCEPT ![Unwrap(reply_sub)] = Some(id)]
              ELSE pending_replies
        /\ ws_ghost' = [ws_ghost EXCEPT !.made = id]
    /\ reply_rx' = [reply_rx EXCEPT ![c] = None]
    /\ UNCHANGED <<ws_stream, reader_pc, sender_task, sender_chan, wire_out,
                   wire_in, agentVars>>

\* self.sender.send(msg).await can complete
CanEnqueue(c) ==
    calls[c].pc = "registered" /\ Len(sender_chan) < CHANNEL_CAPACITY

\* self.sender.send(msg).await: the message enters the channel of the sender
\* task; without a reply_sub the call returns here
Enqueue(c) ==
    /\ CanEnqueue(c)
    /\ sender_chan' = Append(sender_chan,
                             WSMessage(calls[c].id, "request",
                                       calls[c].reply_sub))
    /\ calls' = [calls EXCEPT ![c] =
                    IF IsSome(calls[c].reply_sub)
                    THEN [@ EXCEPT !.pc = "waiting"]
                    ELSE [@ EXCEPT !.pc = "returned",
                                   !.result = Some(NoReplyExpected)]]
    /\ UNCHANGED <<ws_stream, reader_pc, sender_task, wire_out, wire_in,
                   pending_replies, reply_rx, ws_ghost, agentVars>>

\* reply_rx.recv() yields a message
CanRecvReply(c) == calls[c].pc = "waiting" /\ IsSome(reply_rx[c])

\* Ok(Some(reply)) => Ok(reply)
RecvReply(c) ==
    /\ CanRecvReply(c)
    /\ calls' = [calls EXCEPT ![c].pc = "returned",
                              ![c].result = Some(Unwrap(reply_rx[c]).sub)]
    /\ reply_rx' = [reply_rx EXCEPT ![c] = None]
    /\ UNCHANGED <<ws_stream, reader_pc, sender_task, sender_chan, wire_out,
                   wire_in, pending_replies, ws_ghost, agentVars>>

\* reply_rx.recv() yields None: the channel is empty and its sender dropped
CanRecvClosed(c) ==
    /\ calls[c].pc = "waiting"
    /\ reply_rx[c] = None
    /\ ~SenderHeld(pending_replies, calls[c].id)

\* Ok(None) => Err("Reply channel closed unexpectedly")
RecvClosed(c) ==
    /\ CanRecvClosed(c)
    /\ calls' = [calls EXCEPT ![c].pc = "returned",
                              ![c].result = Some(ChannelClosed)]
    /\ UNCHANGED <<ws_stream, reader_pc, sender_task, sender_chan, wire_out,
                   wire_in, pending_replies, reply_rx, ws_ghost, agentVars>>

\* sender task: rx.recv() has a message
CanSenderRecv == sender_task.pc = "recv" /\ sender_chan # <<>>

\* sender task: take the next message and ask for the socket lock
SenderRecv ==
    /\ CanSenderRecv
    /\ sender_task' = [pc |-> "send", msg |-> Some(Head(sender_chan))]
    /\ sender_chan' = Tail(sender_chan)
    /\ ws_stream' = Lock(ws_stream, "sender")
    /\ UNCHANGED <<reader_pc, wire_out, wire_in, pending_replies, calls,
                   reply_rx, ws_ghost, agentVars>>

\* sender task: it holds the socket lock
CanSenderWrite == sender_task.pc = "send" /\ ws_stream.holder = "sender"

\* sender task: write the message to the socket, drop the guard, loop
SenderWrite ==
    /\ CanSenderWrite
    /\ wire_out' = Append(wire_out, Unwrap(sender_task.msg))
    /\ sender_task' = [pc |-> "recv", msg |-> None]
    /\ ws_stream' = Unlock(ws_stream)
    /\ UNCHANGED <<reader_pc, sender_chan, wire_in, pending_replies, calls,
                   reply_rx, ws_ghost, agentVars>>

\* reader task: it has not run yet
CanReaderLock == reader_pc = "start"

\* reader task: the first ws_stream_clone.lock().await
ReaderLock ==
    /\ CanReaderLock
    /\ reader_pc' = "next"
    /\ ws_stream' = Lock(ws_stream, "reader")
    /\ UNCHANGED <<sender_task, sender_chan, wire_out, wire_in,
                   pending_replies, calls, reply_rx, ws_ghost, agentVars>>

\* reader task: it holds the socket lock and a frame has arrived
CanReaderNext ==
    reader_pc = "next" /\ ws_stream.holder = "reader" /\ wire_in # <<>>

\* the reader's match on a Text frame: remove the sender stored under the
\* message's sub and send the message through it; the send fails, and the
\* message is dropped, when the receiver is gone
Deliver(pending, rx, cs, frame) ==
    IF frame.kind = "text" /\ IsSome(pending[frame.sub])
    THEN [pending |-> [pending EXCEPT ![frame.sub] = None],
          rx |-> [c \in Callers |->
                     IF c \in Receivers(cs, Unwrap(pending[frame.sub]))
                     THEN Some(frame) ELSE rx[c]]]
    ELSE [pending |-> pending, rx |-> rx]

\* reader task: .next().await yields a frame while the guard is held; the
\* frame is handled, the guard is dropped at the end of the iteration, and
\* the loop either ends (Close, error) or asks for the lock again
ReaderNext ==
    /\ CanReaderNext
    /\ LET frame == Head(wire_in)
           d == Deliver(pending_replies, reply_rx, calls, frame)
       IN  /\ wire_in' = Tail(wire_in)
           /\ pending_replies' = d.pending
           /\ reply_rx' = d.rx
           /\ IF frame.kind \in {"close", "error"}
              THEN /\ reader_pc' = "done"
                   /\ ws_stream' = Unlock(ws_stream)
              ELSE /\ reader_pc' = "next"
                   /\ ws_stream' = Lock(Unlock(ws_stream), "reader")
    /\ UNCHANGED <<sender_task, sender_chan, wire_out, calls, ws_ghost,
                   agentVars>>

\* some task of the client can take a step without waiting for the server
\* or for the clock
LocalStep ==
    \/ CanSenderRecv
    \/ CanSenderWrite
    \/ CanReaderLock
    \/ CanReaderNext
    \/ \E c \in Callers : CanEnqueue(c) \/ CanRecvReply(c) \/ CanRecvClosed(c)

\* timeout(Duration::from_secs(60), reply_rx.recv()) elapses.  Steps of the
\* tasks take no time on the scale of the 60 s: the timeout fires only when
\* every task of the client is blocked.
Timeout(c) ==
    /\ calls[c].pc = "waiting"
    /\ reply_rx[c] = None
    /\ ~LocalStep
    /\ calls' = [calls EXCEPT ![c].pc = "returned",
                              ![c].result = Some(TimedOut)]
    /\ UNCHANGED <<ws_stream, reader_pc, sender_task, sender_chan, wire_out,
                   wire_in, pending_replies, reply_rx, ws_ghost, agentVars>>

\* the requests the server has received and not answered
Unanswered ==
    {i \in 1..Len(wire_out) :
        /\ IsSome(wire_out[i].reply_sub)
        /\ wire_out[i].id \notin ws_ghost.answered}

\* the server answers a request it has received on the request's reply_sub
ServerReply(i) ==
    /\ i \in Unanswered
    /\ wire_in' = Append(wire_in, TextFrame(Unwrap(wire_out[i].reply_sub),
                                            wire_out[i].id))
    /\ ws_ghost' = [ws_ghost EXCEPT !.answered = @ \cup {wire_out[i].id}]
    /\ UNCHANGED <<ws_stream, reader_pc, sender_task, sender_chan, wire_out,
                   pending_replies, calls, reply_rx, agentVars>>

\* the frames a server can send that answer no request
UnsolicitedFrames ==
    {TextFrame(rs, 0) : rs \in ReplySubs}
        \cup {OtherFrame, CloseFrame, ErrorFrame}

\* the server sends a frame of its own accord
ServerPush(frame) ==
    /\ ws_ghost.unsolicited < MaxUnsolicited
    /\ wire_in' = Append(wire_in, frame)
    /\ ws_ghost' = [ws_ghost EXCEPT !.unsolicited = @ + 1]
    /\ UNCHANGED <<ws_stream, reader_pc, sender_task, sender_chan, wire_out,
                   pending_replies, calls, reply_rx, agentVars>>

NextWS ==
    \/ \E c \in Callers, rs \in {None} \cup {Some(r) : r \in ReplySubs} :
          Call(c, rs)
    \/ \E c \in Callers : Enqueue(c)
    \/ \E c \in Callers : RecvReply(c)
    \/ \E c \in Callers : RecvClosed(c)
    \/ \E c \in Callers : Timeout(c)
    \/ SenderRecv
    \/ SenderWrite
    \/ ReaderLock
    \/ ReaderNext
    \/ \E i \in 1..MaxCalls : ServerReply(i)
    \/ \E frame \in UnsolicitedFrames : ServerPush(frame)

SpecWS == Init /\ [][NextWS]_vars

-----------------------------------------------------------------------------
(* Helpers of the properties *)

Terminal == {"Acked", "TimedOut", "TransportFailed"}

Zero4 == <<0, 0, 0, 0>>

\* every status of a verdict is Normal
AllNormal(m) ==
    /\ m.cpu.status = "Normal"
    /\ m.ram.status = "Normal"
    /\ m.disk.status = "Normal"
    /\ m.network.status = "Normal"
    /\ m.overall_status = "Normal"

-----------------------------------------------------------------------------
(* C1 *)

C4_SentReachesTerminal ==
    (attempt = "Sent" /\ cycles < MaxCycles) ~> (attempt \in Terminal)

(* C5 *)

\* C5: every request handed to a receiver gets a well-formed
\* acknowledgement; a request with reply = false gets one with status
\* Failure and an explanatory payload.
C5_AlwaysAnswered ==
    IsSome(request) =>
        /\ IsSome(response)
        /\ Unwrap(response).status \in {ICUStatus_Failure, ICUStatus_Success}
        /\ ~Unwrap(request).reply =>
              /\ Unwrap(response).status = ICUStatus_Failure
              /\ Unwrap(response).payload = "Acknowledgement failed."

(* C6 *)

\* C6: a request with reply = true is answered with subject "ack-" followed
\* by the request's subject, status Success (1) and the fixed confirmation
\* message, by either receiver.
C6_ReplyTrueAcked ==
    (IsSome(request) /\ Unwrap(request).reply) =>
        /\ IsSome(response)
        /\ Unwrap(response).subject = AckPrefix \o Unwrap(request).subject
        /\ Unwrap(response).status = 1
        /\ Unwrap(response).payload = "Acknowledged successfully."

\* "CriticalAlert" with reply = true was answered "ack-CriticalAlert", Success
C6_Witness ==
    /\ IsSome(request)
    /\ Unwrap(request).reply
    /\ Unwrap(request).subject = CriticalAlert
    /\ IsSome(response)
    /\ Unwrap(response).subject =
          <<"a", "c", "k", "-", "C", "r", "i", "t", "i", "c", "a", "l",
            "A", "l", "e", "r", "t">>
    /\ Unwrap(response).status = 1

(* C7 *)

\* C7: the subject of every response is the request's subject with exactly
\* one "ack-" prefix: the request's subject itself when it already starts
\* with "ack-", and "ack-" followed by it otherwise.
C7_ExactlyOnePrefix ==
    (IsSome(request) /\ IsSome(response)) =>
        Unwrap(response).subject =
            IF StartsWith(Unwrap(request).subject, AckPrefix)
            THEN Unwrap(request).subject
            ELSE AckPrefix \o Unwrap(request).subject

(* C8 *)

\* the last n elements of a sequence (all of it when it is shorter)
LastN(seq, n) ==
    IF Len(seq) <= n THEN seq ELSE SubSeq(seq, Len(seq) - n + 1, Len(seq))

\* C8: after any sequence of add calls the history holds at most MAX_HISTORY
\* samples, and they are exactly the last MAX_HISTORY pushed samples in
\* push order.
C8_LastPushedInOrder ==
    /\ Len(data) <= MAX_HISTORY
    /\ data = LastN(pushed, MAX_HISTORY)

\* more than MAX_HISTORY samples were pushed and the oldest, which differs
\* from the oldest one kept, was evicted
C8_Witness ==
    /\ Len(pushed) >= MAX_HISTORY + 2
    /\ Len(data) = MAX_HISTORY
    /\ pushed[1] # data[1]
    /\ data[1] # data[2]

(* C9 *)

\* C9 as stated: a cycle with fewer than MIN_SAMPLES samples trains and
\* queries no model, leaves the smoothed scores unchanged, and ends with an
\* all-Normal verdict.
C9_WarmupVerdictAllNormal ==
    (pc = "sleep" /\ Len(data) < MIN_SAMPLES) =>
        /\ trained = "none"
        /\ smoothed_scores = Zero4
        /\ IsSome(metrics_status)
        /\ AllNormal(Unwrap(metrics_status))

\* C9 amended: while the history holds fewer than MIN_SAMPLES samples no
\* model is trained or queried, the smoothed scores keep their initial
\* value, no verdict is produced at all (analyze_status is not called) and
\* no alert is sent.
C9_WarmupNoVerdict ==
    Len(data) < MIN_SAMPLES =>
        /\ trained = "none"
        /\ smoothed_scores = Zero4
        /\ metrics_status = None
        /\ attempt = "Idle"

\* a warm-up cycle has run to its end
C9_Witness ==
    /\ pc = "sleep"
    /\ Len(data) >= 1
    /\ Len(data) < MIN_SAMPLES
    /\ metrics_status = None

(* C10 *)

\* C10: a call of analyze_status whose training fails returns an all-Normal
\* verdict and leaves the history, previous_data and the smoothed scores as
\* they were; the failure is not remembered in the next cycle.
C10_TrainingFailureIsLocal ==
    [][ /\ (pc = "check" /\ trained' = "failed") =>
            /\ IsSome(metrics_status')
            /\ AllNormal(Unwrap(metrics_status'))
            /\ data' = data
            /\ previous_data' = previous_data
            /\ smoothed_scores' = smoothed_scores
        /\ (trained = "failed" /\ pc' = "collect") =>
            /\ trained' = "none"
            /\ metrics_status' = None
            /\ data' = data
            /\ smoothed_scores' = smoothed_scores ]_vars

\* training failed in a cycle that follows a scored one: the smoothed
\* scores of the earlier cycle are still there
C10_Witness ==
    /\ trained = "failed"
    /\ smoothed_scores # Zero4
    /\ IsSome(metrics_status)
    /\ AllNormal(Unwrap(metrics_status))

(* C11 *)

\* the status of dimension i in a verdict
DimStatus(m, i) == <<m.cpu, m.ram, m.disk, m.network>>[i].status

\* a verdict was produced by a scoring analyze_status call
Scored == pc = "dispatch" /\ trained = "ok" /\ IsSome(metrics_status)

\* C11: a spike-flagged dimension is reported Warning; an unflagged one is
\* Critical iff s > t + 0.2, Warning iff t < s <= t + 0.2 and Normal iff
\* s <= t, for its smoothed score s and threshold t.
C11_PerDimensionStatus ==
    Scored =>
        \A i \in Dims :
            LET s == smoothed_scores[i]
                warn == thresholds[i] * (Scale \div 100)
                crit == (thresholds[i] + 20) * (Scale \div 100)
                st == DimStatus(Unwrap(metrics_status), i)
            IN  IF Unwrap(spike_flags)[i]
                THEN st = "Warning"
                ELSE /\ (st = "Critical") <=> (s > crit)
                     /\ (st = "Warning") <=> (warn < s /\ s <= crit)
                     /\ (st = "Normal") <=> (s <= warn)

\* one verdict with a flagged dimension, an unflagged dimension exactly at
\* t + 0.2 reported Warning, one exactly at t reported Normal and one just
\* above t + 0.2 reported Critical
C11_Witness ==
    /\ Scored
    /\ Unwrap(spike_flags)[1]
    /\ DimStatus(Unwrap(metrics_status), 1) = "Warning"
    /\ ~Unwrap(spike_flags)[2]
    /\ smoothed_scores[2] = 80 * (Scale \div 100)
    /\ DimStatus(Unwrap(metrics_status), 2) = "Warning"
    /\ ~Unwrap(spike_flags)[3]
    /\ smoothed_scores[3] = 65 * (Scale \div 100)
    /\ DimStatus(Unwrap(metrics_status), 3) = "Normal"
    /\ ~Unwrap(spike_flags)[4]
    /\ smoothed_scores[4] = 95 * (Scale \div 100) + 1
    /\ DimStatus(Unwrap(metrics_status), 4) = "Critical"

(* C12 *)

\* Normal < Warning < Critical
Severity(st) == CASE st = "Normal" -> 0 [] st = "Warning" -> 1
                  [] st = "Critical" -> 2

\* C12: the status reported for a spike-flagged dimension is at least as
\* severe as the status the threshold comparison alone gives for the same
\* smoothed score.
C12_SpikeNeverDowngrades ==
    Scored =>
        \A i \in Dims :
            Unwrap(spike_flags)[i] =>
                Severity(DimStatus(Unwrap(metrics_status), i)) >=
                    Severity(determine_status(smoothed_scores[i], thresholds[i]))

(* C13 *)

\* C13: the overall status is Critical iff the weighted sum
\* 0.4*cpu + 0.35*ram + 0.15*disk + 0.10*net of the smoothed scores exceeds
\* 0.8, Warning iff it exceeds 0.6 and not 0.8, Normal otherwise, whatever
\* the spike flags are.
C13_OverallFromWeightedSum ==
    Scored =>
        LET w == 8 * smoothed_scores[1] + 7 * smoothed_scores[2]
                    + 3 * smoothed_scores[3] + 2 * smoothed_scores[4]
            overall == Unwrap(metrics_status).overall_status
        IN  /\ (overall = "Critical") <=> (w > 16 * Scale)
            /\ (overall = "Warning") <=> (12 * Scale < w /\ w <= 16 * Scale)
            /\ (overall = "Normal") <=> (w <= 12 * Scale)

\* every dimension is spike-flagged and the weighted sum is exactly 0.6:
\* the overall status is Normal although every dimension reports Warning
C13_Witness ==
    /\ Scored
    /\ \A i \in Dims : Unwrap(spike_flags)[i]
    /\ \A i \in Dims : smoothed_scores[i] = 60 * (Scale \div 100)
    /\ \A i \in Dims : DimStatus(Unwrap(metrics_status), i) = "Warning"
    /\ Unwrap(metrics_status).overall_status = "Normal"

(* C14 *)

\* C14: detect_spike flags dimension i iff at least two samples have been
\* recorded and the latest differs from the one before it by strictly more
\* than 20.0 in dimension i.
C14_SpikeIffStrictlyAbove ==
    IsSome(spike_flags) =>
        LET n == Len(pushed)
        IN  \A i \in Dims :
                Unwrap(spike_flags)[i] <=>
                    /\ n >= 2
                    /\ \/ pushed[n][i] - pushed[n - 1][i] > 20
                       \/ pushed[n - 1][i] - pushed[n][i] > 20

\* after an eviction the cpu values of the last two samples differ by
\* exactly 20 and no dimension is flagged
C14_Witness ==
    /\ IsSome(spike_flags)
    /\ Len(pushed) > MAX_HISTORY
    /\ pushed[Len(pushed)][1] - pushed[Len(pushed) - 1][1] = 20
    /\ ~Unwrap(spike_flags)[1]
    /\ ~Unwrap(spike_flags)[4]

(* C15 *)

\* C15: one update_smoothed_scores call with raw score r takes a smoothed
\* score of zero to 0.3 * r, and takes any smoothed score s to a value
\* between s and r whose distance to r is 0.7 times the distance of s:
\* repeated updates with the same r move monotonically toward r, strictly
\* closer each time, and never past it.
C15_EwmaMovesTowardRaw ==
    [][ (raw_scores = None /\ IsSome(raw_scores')) =>
            \A i \in Dims :
                LET r == Unwrap(raw_scores')[i]
                    s == smoothed_scores[i]
                    t == smoothed_scores'[i]
                IN  /\ 10 * (r - t) = 7 * (r - s)
                    /\ s = 0 => 10 * t = 3 * r
                    /\ s < r => (s < t /\ t < r)
                    /\ s > r => (r < t /\ t < s) ]_vars

\* two updates from zero with the same raw score 1.0: 0.3, then 0.51
C15_Witness ==
    /\ IsSome(raw_scores)
    /\ Unwrap(raw_scores)[1] = One
    /\ smoothed_scores[1] = 51 * (Scale \div 100)

(* C16 *)

\* C16 as stated: after at least one scoring update each smoothed score
\* lies between the least and the greatest raw score fed to
\* update_smoothed_scores for its dimension.
C16_WithinRawRange ==
    IsSome(raw_seen) =>
        \A i \in Dims :
            /\ Unwrap(raw_seen).min[i] <= smoothed_scores[i]
            /\ smoothed_scores[i] <= Unwrap(raw_seen).max[i]

\* C16 amended: each smoothed score lies in the range spanned by its
\* initial value 0 and the raw scores fed to update_smoothed_scores so far.
C16_WithinRawRangeAndZero ==
    IsSome(raw_seen) =>
        \A i \in Dims :
            /\ Min2(0, Unwrap(raw_seen).min[i]) <= smoothed_scores[i]
            /\ smoothed_scores[i] <= Max2(0, Unwrap(raw_seen).max[i])

\* after some update a smoothed score is still below every raw score seen
C16_Witness ==
    /\ IsSome(raw_seen)
    /\ 0 < smoothed_scores[1]
    /\ smoothed_scores[1] < Unwrap(raw_seen).min[1]

(* C19 *)

\* C19: after any sequence of add calls previous_data is None when the
\* history holds fewer than two samples and otherwise the element just
\* before the latest one in the history.
C19_PreviousIsPredecessor ==
    previous_data =
        IF Len(data) < 2 THEN None ELSE Some(data[Len(data) - 1])

\* the oldest sample was evicted, and it differs from both the latest sample
\* and the sample before the latest, which previous_data holds
C19_Witness ==
    /\ Len(pushed) = MAX_HISTORY + 1
    /\ Len(data) = MAX_HISTORY
    /\ previous_data = Some(pushed[MAX_HISTORY])
    /\ pushed[1] # pushed[MAX_HISTORY]
    /\ pushed[MAX_HISTORY] # pushed[MAX_HISTORY + 1]

(* C17 *)

\* C17: building an acknowledgement from the subject of an already built
\* acknowledgement yields the same subject, with either EventAck::new.
C17_AckSubjectIdempotent ==
    [][ (IsSome(ack) /\ IsSome(ack_in') /\ Unwrap(ack_in').round = 2) =>
            /\ Unwrap(ack_in').subject = Unwrap(ack).subject
            /\ Unwrap(ack').subject = Unwrap(ack).subject ]_vars

\* "ack-x", built from "x", was handed to EventAck::new again and came
\* back as "ack-x"
C17_Witness ==
    /\ IsSome(ack)
    /\ Unwrap(ack_in).round = 2
    /\ Unwrap(ack_in).subject = <<"a", "c", "k", "-", "x">>
    /\ Unwrap(ack).subject = <<"a", "c", "k", "-", "x">>

(* C18 *)

\* C18: every EventAck::new call, also one whose subject already begins
\* with "ack-", builds status Failure and the error's message when an error
\* is supplied, and status Success and the given payload when none is.
C18_StatusFromError ==
    IsSome(ack) =>
        IF IsSome(Unwrap(ack_in).error)
        THEN /\ Unwrap(ack).status = ICUStatus_Failure
             /\ Unwrap(ack).payload = Unwrap(Unwrap(ack_in).error).message
        ELSE /\ Unwrap(ack).status = ICUStatus_Success
             /\ Unwrap(ack).payload = Unwrap(ack_in).payload

-----------------------------------------------------------------------------
(* C20 *)

\* call id's message has been written to the socket
Written(id) == \E i \in 1..Len(wire_out) : wire_out[i].id = id

\* C20: every message handed to send_and_wait_for_reply is written to the
\* socket even when the server sends nothing until it has received it: no
\* call ends in "Timeout waiting for reply" with its message still unwritten
\* while the server has sent no frame of its own accord.
C20_NoTimeoutWhileUnwritten ==
    \A c \in Callers :
        (calls[c].result = Some(TimedOut) /\ ws_ghost.unsolicited = 0)
            => Written(calls[c].id)

-----------------------------------------------------------------------------
(* C21 *)

\* C21: once a send_and_wait_for_reply call with a reply_sub has returned,
\* pending_replies no longer holds the entry the call registered.  Stated
\* for the calls whose message did reach the socket.
C21_ReturnedCallLeavesNoEntry ==
    \A c \in Callers :
        (/\ calls[c].pc = "returned"
         /\ IsSome(calls[c].reply_sub)
         /\ Written(calls[c].id))
            => ~SenderHeld(pending_replies, calls[c].id)

-----------------------------------------------------------------------------
(* C22 *)

\* the server's answer to call id has been read off the socket by the reader
Arrived(id) ==
    /\ id \in ws_ghost.answered
    /\ \A i \in 1..Len(wire_in) : wire_in[i].re # id

\* C22: a caller whose matching reply arrives before the timeout returns
\* that reply, also when another concurrent caller registered the same
\* reply_sub: a call whose answer has been read by the reader has returned
\* a message on its reply_sub, unless it ran into the timeout.
C22_ArrivedReplyIsReturned ==
    \A c \in Callers :
        (/\ calls[c].pc = "returned"
         /\ IsSome(calls[c].reply_sub)
         /\ Arrived(calls[c].id))
            => calls[c].result \in {calls[c].reply_sub, Some(TimedOut)}

-----------------------------------------------------------------------------
(* C23 *)

\* 0.7^k in units of 1/Scale
DecayAfter(k) == (7 ^ k) * (10 ^ (MaxCycles - k))

\* C23: with raw scores in [0, 1] and smoothed scores starting at zero,
\* after k updates every smoothed score is at most 1 - 0.7^k, so the overall
\* status is not Critical in the first four scored cycles and no alert is
\* dispatched before the fifth scored cycle, that is before four more
\* samples than the warm-up length have been collected.
C23_NoCriticalBeforeFifthScoredCycle ==
    /\ \A i \in Dims :
          smoothed_scores[i] <= Scale - DecayAfter(scored_cycles)
    /\ (IsCritical(metrics_status) \/ attempt # "Idle" \/ sent_count > 0)
          => /\ scored_cycles >= 5
             /\ cycles >= MIN_SAMPLES + 4

\* the bound is met: an alert is in flight in the fifth scored cycle, the
\* first cycle with four more samples than the warm-up length
C23_Witness ==
    /\ IsCritical(metrics_status)
    /\ sent_count = 1
    /\ scored_cycles = 5
    /\ cycles = MIN_SAMPLES + 4
    /\ \A i \in Dims : smoothed_scores[i] = Scale - DecayAfter(5)

=============================================================================
